---- MODULE Spec2Model ----
(***************************************************************************)
(* Model of scripts/generate_multilang_files.py: a straight-line batch     *)
(* job that loads a JSONL dataset, groups it by language, sorts every      *)
(* group by (difficulty rank, instance_id), interleaves the groups of the  *)
(* fixed language order round-robin, writes the round-robin file, builds   *)
(* the dataset summary, writes it and prints two confirmation lines.       *)
(*                                                                         *)
(* Python str values that the script compares or concatenates are modelled *)
(* as sequences of code points, so that "<", sorted() and the f-string     *)
(* f"{org}/{repo}" are computed, not assumed.  Difficulty values, which    *)
(* are only used as dict keys, and literal text are TLA+ strings.          *)
(***************************************************************************)
EXTENDS Integers, Sequences, FiniteSets, TLC

\* ------------------------------------------------------------- bounds
\* Longest free-form prefix of the input file.
MaxLen == 2
\* Largest number of complete blocks (one record per fixed language).
MaxRounds == 2

\* ---------------------------------------------------------- constants
ROUND_ROBIN_PATH == "tests/multilang/round-robin-by-language.md"
SUMMARY_PATH == "tests/multilang/dataset-summary.json"

LANG_ORDER ==
  << <<112, 121, 116, 104, 111, 110>>,   \* "python"
     <<106, 115>>,                       \* "js"
     <<116, 115>>,                       \* "ts"
     <<106, 97, 118, 97>>,               \* "java"
     <<99, 43, 43>>,                     \* "c++"
     <<103, 111>>,                       \* "go"
     <<114, 117, 115, 116>>,             \* "rust"
     <<99>> >>                           \* "c"

DIFF_ORDER == [easy |-> 0, medium |-> 1, hard |-> 2]

\* DIFF_ORDER.get(difficulty, 99)
DiffRank(difficulty) ==
  IF difficulty \in DOMAIN DIFF_ORDER THEN DIFF_ORDER[difficulty] ELSE 99

\* ------------------------------------------------------ str operations
\* str.__lt__: lexicographic order on code points, a proper prefix first.
StrLess(s, t) ==
  \/ \E k \in 1..Len(s) :
        /\ k <= Len(t)
        /\ s[k] < t[k]
        /\ \A j \in 1..(k - 1) : s[j] = t[j]
  \/ /\ Len(s) < Len(t)
     /\ \A j \in 1..Len(s) : s[j] = t[j]

\* str(n) of a non-negative int, as the f-strings format it.
RECURSIVE IntToStr(_)
IntToStr(n) ==
  IF n < 10 THEN <<48 + n>> ELSE IntToStr(n \div 10) \o <<48 + (n % 10)>>

\* list.sort / sorted: a stable sort.  less[i, j] tells whether the key of
\* s[i] is smaller than the key of s[j].  Element i goes behind every
\* element that is smaller, and behind every equal element that came earlier.
StableSort(s, less) ==
  LET pos(i) == 1 + Cardinality({j \in 1..Len(s) :
                       \/ less[j, i]
                       \/ (~less[i, j] /\ j < i)})
  IN  [k \in 1..Len(s) |-> s[CHOOSE i \in 1..Len(s) : pos(i) = k]]

\* ------------------------------------------------------------- inputs
Fields == {"instance_id", "language", "difficulty", "org", "repo"}

Php == <<112, 104, 112>>                 \* "php", outside LANG_ORDER
OrgO == <<111>>                          \* "o"
RepoR == <<114>>                         \* "r"

\* A line of the input file; its instance_id is filled in by WithIds.
FreeTemplates ==
  { [instance_id |-> <<>>, language |-> l, difficulty |-> d,
     org |-> p[1], repo |-> p[2]] :
      l \in {LANG_ORDER[1], Php},
      d \in {"easy", "expert"},
      p \in { <<OrgO, RepoR>>,
              <<OrgO, RepoR \o <<47>> \o RepoR>>,      \* o , r/r
              <<OrgO \o <<47>> \o RepoR, RepoR>> } }   \* o/r , r

\* Lines that lack one of the fields the script reads.
Drop(rec, f) == [g \in (DOMAIN rec) \ {f} |-> rec[g]]

FullLine ==
  [instance_id |-> <<>>, language |-> LANG_ORDER[1], difficulty |-> "easy",
   org |-> OrgO, repo |-> RepoR]

BrokenTemplates == { Drop(FullLine, f) : f \in Fields }

Templates == FreeTemplates \cup BrokenTemplates

\* Block j holds one record per fixed language; the blocks come in an
\* order that is not the sorted order of their groups.
BlockDifficulty == <<"hard", "easy", "medium">>

BlockLine(j, m) ==
  [instance_id |-> <<>>,
   language |-> LANG_ORDER[m],
   difficulty |-> BlockDifficulty[((j - 1) % 3) + 1],
   org |-> OrgO,
   repo |-> RepoR \o IntToStr(9 - (j % 9))]

RECURSIVE Blocks(_)
Blocks(n) ==
  IF n = 0 THEN <<>>
  ELSE Blocks(n - 1) \o [m \in 1..Len(LANG_ORDER) |-> BlockLine(n, m)]

SeqsUpTo(S, n) == UNION { [1..k -> S] : k \in 0..n }

\* instance_ids are unique: "i1", "i2", ... handed out front to back or
\* back to front, so that file order and id order differ.
InstanceId(k) == <<105>> \o IntToStr(k)

WithIds(lines, ascending) ==
  [k \in 1..Len(lines) |->
     IF "instance_id" \in DOMAIN lines[k]
     THEN [lines[k] EXCEPT !.instance_id =
             InstanceId(IF ascending THEN k ELSE Len(lines) + 1 - k)]
     ELSE lines[k]]

\* The input files the model runs the script on.
Inputs ==
  { WithIds(free, asc) : free \in SeqsUpTo(Templates, MaxLen), asc \in BOOLEAN }
  \cup
  { WithIds(free \o Blocks(n), asc) :
      free \in SeqsUpTo(Templates, 1), n \in 1..MaxRounds, asc \in BOOLEAN }

\* ------------------------------------------------------------- state
VARIABLES
  input,         \* parsed lines of JSONL_PATH, the same for every run
  run,           \* number of the current invocation
  pc,            \* the statement group the invocation is at
  status,        \* "running", "done", or "failed" (uncaught exception at pc)
  data,          \* line 15
  by_lang,       \* line 18: language -> list of records
  rr_lines,      \* line 26
  summary,       \* line 61, <<>> until built
  rr_file,       \* ROUND_ROBIN_PATH on disk
  summary_file,  \* SUMMARY_PATH on disk
  opened,        \* output paths this invocation has opened for writing
  stdout,        \* lines this invocation has printed
  prev_outputs   \* both files as the last completed invocation left them

vars == <<input, run, pc, status, data, by_lang, rr_lines, summary, rr_file,
          summary_file, opened, stdout, prev_outputs>>

Has(d, f) == f \in DOMAIN d

Range(s) == { s[k] : k \in 1..Len(s) }

\* by_lang[lang] of the defaultdict(list): a missing key reads as [].
Group(groups, lang) == IF lang \in DOMAIN groups THEN groups[lang] ELSE <<>>

\* A file on disk: whether it exists, and the lines (for the summary: the
\* JSON document, once complete) it holds.
NoFile == [exists |-> FALSE, content |-> <<>>]

Init ==
  /\ input \in Inputs
  /\ run = 1
  /\ pc = "load"
  /\ status = "running"
  /\ data = <<>>
  /\ by_lang = <<>>
  /\ rr_lines = <<>>
  /\ summary = <<>>
  /\ rr_file = NoFile
  /\ summary_file = NoFile
  /\ opened = {}
  /\ stdout = <<>>
  /\ prev_outputs = <<>>

At(step) == pc = step /\ status = "running"

\* Variant: each confirmation is printed right after its file is written.
StepsPrintEarly ==
  << "load", "group", "sort", "interleave", "write_rr", "print_rr",
     "summary", "write_summary", "print_summary" >>

\* The statement groups of the script, top to bottom.
Steps ==
  << "load",            \* lines 14-15
     "group",           \* lines 18-20
     "sort",            \* lines 22-23
     "interleave",      \* lines 26-31
     "write_rr",        \* lines 34-41
     "summary",         \* lines 44-67
     "write_summary",   \* lines 69-71
     "print_rr",        \* line 73
     "print_summary" >> \* line 74

\* Control falls through to the next statement group, or off the end.
Advance ==
  LET n == CHOOSE k \in 1..Len(Steps) : Steps[k] = pc
  IN  IF n < Len(Steps)
      THEN pc' = Steps[n + 1] /\ status' = status
      ELSE pc' = "exit" /\ status' = "done"

\* An uncaught exception: the interpreter exits, nothing else runs.
Raise == pc' = pc /\ status' = "failed"

\* ---------------------------------------------------- load, lines 14-15
Load ==
  /\ At("load")
  /\ data' = input
  /\ Advance
  /\ UNCHANGED <<input, run, by_lang, rr_lines, summary, rr_file,
                 summary_file, opened, stdout, prev_outputs>>

\* open(JSONL_PATH) raises: the input file is missing or unreadable.
LoadFail ==
  /\ At("load")
  /\ Raise
  /\ UNCHANGED <<input, run, data, by_lang, rr_lines, summary, rr_file,
                 summary_file, opened, stdout, prev_outputs>>

\* --------------------------------------------------- group, lines 18-20
GroupBy(recs) ==
  [lang \in { d.language : d \in Range(recs) } |->
     SelectSeq(recs, LAMBDA d : d.language = lang)]

GroupByLanguage ==
  /\ At("group")
  /\ IF \E d \in Range(data) : ~Has(d, "language")
     THEN Raise /\ UNCHANGED by_lang
     ELSE by_lang' = GroupBy(data) /\ Advance
  /\ UNCHANGED <<input, run, data, rr_lines, summary, rr_file,
                 summary_file, opened, stdout, prev_outputs>>

\* ---------------------------------------------------- sort, lines 22-23
\* Variant: key=lambda d: DIFF_ORDER.get(d["difficulty"], 99), no tie-break.
KeyLessRankOnly(a, b) == DiffRank(a.difficulty) < DiffRank(b.difficulty)

\* key=lambda d: (DIFF_ORDER.get(d["difficulty"], 99), d["instance_id"])
KeyLess(a, b) ==
  \/ DiffRank(a.difficulty) < DiffRank(b.difficulty)
  \/ /\ DiffRank(a.difficulty) = DiffRank(b.difficulty)
     /\ StrLess(a.instance_id, b.instance_id)

SortGroups ==
  /\ At("sort")
  /\ IF \E d \in Range(data) : ~Has(d, "difficulty") \/ ~Has(d, "instance_id")
     THEN Raise /\ UNCHANGED by_lang
     ELSE /\ by_lang' =
               [lang \in DOMAIN by_lang |->
                  StableSort(by_lang[lang],
                             [i, j \in 1..Len(by_lang[lang]) |->
                                KeyLess(by_lang[lang][i], by_lang[lang][j])])]
          /\ Advance
  /\ UNCHANGED <<input, run, data, rr_lines, summary, rr_file,
                 summary_file, opened, stdout, prev_outputs>>

\* --------------------------------------------- round-robin, lines 26-31
RECURSIVE Max(_)
Max(S) ==
  LET x == CHOOSE y \in S : TRUE
  IN  IF S = {x} THEN x
      ELSE LET m == Max(S \ {x}) IN IF x > m THEN x ELSE m

\* One pass of the inner loop, from the m-th language on; i counts from 0.
RECURSIVE RoundFrom(_, _, _)
RoundFrom(groups, i, m) ==
  IF m > Len(LANG_ORDER) THEN <<>>
  ELSE (IF i < Len(Group(groups, LANG_ORDER[m]))
        THEN <<Group(groups, LANG_ORDER[m])[i + 1].instance_id>>
        ELSE <<>>) \o RoundFrom(groups, i, m + 1)

RECURSIVE RoundsFrom(_, _, _)
RoundsFrom(groups, i, max_per_lang) ==
  IF i >= max_per_lang THEN <<>>
  ELSE RoundFrom(groups, i, 1) \o RoundsFrom(groups, i + 1, max_per_lang)

\* Variant: min(...) where line 27 has max(...).
MinPerLang(groups) ==
  LET sizes == { Len(Group(groups, LANG_ORDER[m])) : m \in 1..Len(LANG_ORDER) }
  IN  CHOOSE x \in sizes : \A y \in sizes : x <= y

\* line 27
MaxPerLang(groups) ==
  Max({ Len(Group(groups, LANG_ORDER[m])) : m \in 1..Len(LANG_ORDER) })

\* Variant: the two loops of lines 28-29 swapped, language outermost.
RoundRobinByLanguage(groups) ==
  LET RECURSIVE From(_)
      From(m) ==
        IF m > Len(LANG_ORDER) THEN <<>>
        ELSE [k \in 1..Len(Group(groups, LANG_ORDER[m])) |->
                Group(groups, LANG_ORDER[m])[k].instance_id] \o From(m + 1)
  IN  From(1)

RoundRobin(groups) == RoundsFrom(groups, 0, MaxPerLang(groups))

Interleave ==
  /\ At("interleave")
  /\ rr_lines' = RoundRobin(by_lang)
  /\ Advance
  /\ UNCHANGED <<input, run, data, by_lang, summary, rr_file,
                 summary_file, opened, stdout, prev_outputs>>

\* ------------------------------------- round-robin file, lines 34-41
\* An f-string: its literal text with {} for each interpolated value.
Fmt(tmpl, args) == [tmpl |-> tmpl, args |-> args]

\* Variant: the header counts one line too many.
TotalLinePlusOne(lines) ==
  Fmt("# Total instances: {}", <<IntToStr(Len(lines) + 1)>>)

\* line 39
TotalLine(lines) == Fmt("# Total instances: {}", <<IntToStr(Len(lines))>>)

RoundRobinText(lines) ==
  << Fmt("# Round-robin test instances by language", <<>>),
     Fmt("# Order: python, javascript (js), typescript (ts), java, c++, go, rust, c", <<>>),
     Fmt("# Within each language, ordered by difficulty: easy, medium, hard", <<>>),
     Fmt("# Every 8 consecutive lines cover all 8 languages", <<>>),
     TotalLine(lines) >>
  \o [k \in 1..Len(lines) |-> Fmt("{}", <<lines[k]>>)]

\* Variant: open(path, "a"), which keeps what the file held.
Appended(old, text) == [exists |-> TRUE, content |-> old.content \o text]

\* What open(path, "w") followed by the writes leaves when it completes.
Written(old, text) == [exists |-> TRUE, content |-> text]

\* What a write that raises part-way leaves: the file truncated by
\* open(.., "w"), holding a proper prefix of the text (the model takes the
\* shortest and the longest one).
PartlyWritten(text) ==
  { [exists |-> TRUE, content |-> SubSeq(text, 1, k)] : k \in {0, Len(text) - 1} }

WriteRoundRobin ==
  /\ At("write_rr")
  /\ opened' = opened \cup {ROUND_ROBIN_PATH}
  /\ rr_file' = Written(rr_file, RoundRobinText(rr_lines))
  /\ Advance
  /\ UNCHANGED <<input, run, data, by_lang, rr_lines, summary,
                 summary_file, stdout, prev_outputs>>

\* I/O failure: open() raises and the file is untouched, or a write raises.
WriteRoundRobinFail ==
  /\ At("write_rr")
  /\ \/ UNCHANGED <<rr_file, opened>>
     \/ /\ opened' = opened \cup {ROUND_ROBIN_PATH}
        /\ rr_file' \in PartlyWritten(RoundRobinText(rr_lines))
  /\ Raise
  /\ UNCHANGED <<input, run, data, by_lang, rr_lines, summary,
                 summary_file, stdout, prev_outputs>>

\* ------------------------------------------- build summary, lines 44-67
Front(s) == SubSeq(s, 1, Len(s) - 1)

Last(s) == s[Len(s)]

\* Iteration order of a set of str: it depends on the process's hash seed.
HashSeeds == {0, 1}

RECURSIVE SetIter(_, _)
SetIter(S, seed) ==
  IF S = {} THEN <<>>
  ELSE LET x == CHOOSE y \in S : \A z \in S \ {y} :
                  IF seed = 0 THEN StrLess(y, z) ELSE StrLess(z, y)
       IN  <<x>> \o SetIter(S \ {x}, seed)

\* Variant: counts the distinct repos of a language, not its instances.
PerLangCountsOfRepos(groups) ==
  [m \in 1..Len(LANG_ORDER) |->
     [key |-> LANG_ORDER[m],
      value |-> Cardinality({ d.repo :
                              d \in Range(Group(groups, LANG_ORDER[m])) })]]

\* lines 44-49; a dict is a sequence of items in insertion order
PerLangCounts(groups) ==
  [m \in 1..Len(LANG_ORDER) |->
     [key |-> LANG_ORDER[m], value |-> Len(Group(groups, LANG_ORDER[m]))]]

PerLangRepos(groups, seed) ==
  [m \in 1..Len(LANG_ORDER) |->
     LET repos == SetIter({ d.repo : d \in Range(Group(groups, LANG_ORDER[m])) },
                          seed)
     IN  [key |-> LANG_ORDER[m],
          value |-> StableSort(repos, [i, j \in 1..Len(repos) |->
                                         StrLess(repos[i], repos[j])])]]

\* lines 51-53: keys in order of first occurrence
RECURSIVE DiffCounts(_)
DiffCounts(recs) ==
  IF recs = <<>> THEN <<>>
  ELSE LET acc == DiffCounts(Front(recs))
           k == Last(recs).difficulty
       IN  IF \E n \in 1..Len(acc) : acc[n].key = k
           THEN [n \in 1..Len(acc) |->
                   IF acc[n].key = k
                   THEN [acc[n] EXCEPT !.value = @ + 1] ELSE acc[n]]
           ELSE Append(acc, [key |-> k, value |-> 1])

\* line 65: key=lambda x: DIFF_ORDER.get(x[0], 99)
DiffItemLess(a, b) == DiffRank(a.key) < DiffRank(b.key)

\* line 57: f"{d['org']}/{d['repo']}"
RepoKey(d) == d.org \o <<47>> \o d.repo

\* Variant: the entry is assigned without the "not in" test of line 58.
AddRepoOverwrite(acc, d) ==
  IF \E n \in 1..Len(acc) : acc[n].key = RepoKey(d)
  THEN [n \in 1..Len(acc) |->
          IF acc[n].key = RepoKey(d)
          THEN [acc[n] EXCEPT !.value = [repo |-> d.repo, org |-> d.org,
                                         language |-> d.language]]
          ELSE acc[n]]
  ELSE Append(acc, [key |-> RepoKey(d),
                    value |-> [repo |-> d.repo, org |-> d.org,
                               language |-> d.language]])

\* lines 57-59: one pass of the loop body on the dict built so far
AddRepo(acc, d) ==
  IF \E n \in 1..Len(acc) : acc[n].key = RepoKey(d)
  THEN acc
  ELSE Append(acc, [key |-> RepoKey(d),
                    value |-> [repo |-> d.repo, org |-> d.org,
                               language |-> d.language]])

\* lines 55-59
RECURSIVE UniqueRepos(_)
UniqueRepos(recs) ==
  IF recs = <<>> THEN <<>>
  ELSE AddRepo(UniqueRepos(Front(recs)), Last(recs))

\* line 66: key=lambda r: (r["language"], r["org"], r["repo"])
RepoLess(a, b) ==
  \/ StrLess(a.language, b.language)
  \/ /\ a.language = b.language
     /\ \/ StrLess(a.org, b.org)
        \/ a.org = b.org /\ StrLess(a.repo, b.repo)

Values(items) == [n \in 1..Len(items) |-> items[n].value]

\* lines 61-67
Summary(recs, groups, seed) ==
  LET diff_counts == DiffCounts(recs)
      unique_repos == Values(UniqueRepos(recs))
  IN  [total_instances |-> Len(recs),
       per_language_counts |-> PerLangCounts(groups),
       per_language_repos |-> PerLangRepos(groups, seed),
       per_difficulty_counts |->
         StableSort(diff_counts,
                    [i, j \in 1..Len(diff_counts) |->
                       DiffItemLess(diff_counts[i], diff_counts[j])]),
       unique_repos |->
         StableSort(unique_repos,
                    [i, j \in 1..Len(unique_repos) |->
                       RepoLess(unique_repos[i], unique_repos[j])])]

BuildSummary ==
  /\ At("summary")
  /\ IF \E d \in Range(data) : ~Has(d, "repo") \/ ~Has(d, "org")
     THEN Raise /\ UNCHANGED summary
     ELSE /\ \E seed \in HashSeeds :
               summary' = <<Summary(data, by_lang, seed)>>
          /\ Advance
  /\ UNCHANGED <<input, run, data, by_lang, rr_lines, rr_file,
                 summary_file, opened, stdout, prev_outputs>>

\* ------------------------------------------- summary file, lines 69-71
\* json.dump(summary, f, indent=2) and the final newline
WriteSummary ==
  /\ At("write_summary")
  /\ opened' = opened \cup {SUMMARY_PATH}
  /\ summary_file' = Written(summary_file, summary)
  /\ Advance
  /\ UNCHANGED <<input, run, data, by_lang, rr_lines, summary,
                 rr_file, stdout, prev_outputs>>

WriteSummaryFail ==
  /\ At("write_summary")
  /\ \/ UNCHANGED <<summary_file, opened>>
     \/ /\ opened' = opened \cup {SUMMARY_PATH}
        /\ summary_file' \in PartlyWritten(summary)
  /\ Raise
  /\ UNCHANGED <<input, run, data, by_lang, rr_lines, summary,
                 rr_file, stdout, prev_outputs>>

\* ------------------------------------------------ prints, lines 73-74
\* A printed line: the f-string, the path it names and its other values.
Printed(tmpl, path, args) == [tmpl |-> tmpl, path |-> path, args |-> args]

PrintRoundRobin ==
  /\ At("print_rr")
  /\ stdout' = Append(stdout, Printed("Written {} ({} instances)",
                                      ROUND_ROBIN_PATH,
                                      <<IntToStr(Len(rr_lines))>>))
  /\ Advance
  /\ UNCHANGED <<input, run, data, by_lang, rr_lines, summary, rr_file,
                 summary_file, opened, prev_outputs>>

PrintSummary ==
  /\ At("print_summary")
  /\ stdout' = Append(stdout, Printed("Written {}", SUMMARY_PATH, <<>>))
  /\ Advance
  /\ UNCHANGED <<input, run, data, by_lang, rr_lines, summary, rr_file,
                 summary_file, opened, prev_outputs>>

\* --------------------------------------------------- a second invocation
\* The script is started again on the same input file.  Nothing but the two
\* output files survives the first process.
Rerun ==
  /\ status \in {"done", "failed"}
  /\ run = 1
  /\ run' = 2
  /\ pc' = "load"
  /\ status' = "running"
  /\ data' = <<>>
  /\ by_lang' = <<>>
  /\ rr_lines' = <<>>
  /\ summary' = <<>>
  /\ opened' = {}
  /\ stdout' = <<>>
  /\ prev_outputs' = IF status = "done"
                     THEN <<[rr |-> rr_file, summary |-> summary_file]>>
                     ELSE <<>>
  /\ UNCHANGED <<input, rr_file, summary_file>>

Next ==
  \/ Load
  \/ LoadFail
  \/ GroupByLanguage
  \/ SortGroups
  \/ Interleave
  \/ WriteRoundRobin
  \/ WriteRoundRobinFail
  \/ BuildSummary
  \/ WriteSummary
  \/ WriteSummaryFail
  \/ PrintRoundRobin
  \/ PrintSummary
  \/ Rerun

Spec == Init /\ [][Next]_vars

\* ================================================================ claims
L == Len(LANG_ORDER)

InOrder(lang) == \E m \in 1..L : LANG_ORDER[m] = lang

\* The round-robin file has been written completely by this invocation.
RRWritten == ROUND_ROBIN_PATH \in opened /\ pc # "write_rr"

\* The summary file has been written completely by this invocation.
SummaryWritten == SUMMARY_PATH \in opened /\ pc # "write_summary"

\* The instance_id lines of the round-robin file, top to bottom.
FileIds ==
  LET body == SelectSeq(rr_file.content, LAMBDA ln : ln.tmpl = "{}")
  IN  [k \in 1..Len(body) |-> body[k].args[1]]

Doc == summary_file.content[1]

RecordOf(id) == CHOOSE d \in Range(data) : d.instance_id = id

LanguageOf(id) == RecordOf(id).language

\* The difficulty rank as the specification states it.
ClaimRank(difficulty) ==
  CASE difficulty = "easy" -> 0
    [] difficulty = "medium" -> 1
    [] difficulty = "hard" -> 2
    [] OTHER -> 99

Occurrences(s, x) == Cardinality({ k \in 1..Len(s) : s[k] = x })

\* Number of input records of a language.
GroupSize(lang) == Cardinality({ k \in 1..Len(data) : data[k].language = lang })

RECURSIVE SumValues(_)
SumValues(items) ==
  IF items = <<>> THEN 0
  ELSE SumValues(SubSeq(items, 1, Len(items) - 1)) + items[Len(items)].value

\* int(text) of a string of decimal digits
RECURSIVE ParseInt(_)
ParseInt(digits) ==
  IF digits = <<>> THEN 0
  ELSE 10 * ParseInt(SubSeq(digits, 1, Len(digits) - 1))
       + (digits[Len(digits)] - 48)

\* Length of the shortest group among the fixed languages.
MinGroup ==
  LET sizes == { GroupSize(LANG_ORDER[m]) : m \in 1..L }
  IN  CHOOSE x \in sizes : \A y \in sizes : x <= y

\* C1: with unique instance_ids in the input, the round-robin file holds
\* each instance_id of a record whose language is in LANG_ORDER exactly
\* once, and holds no other id.
C1_Completeness ==
  (RRWritten /\ Cardinality({ d.instance_id : d \in Range(data) }) = Len(data))
  => LET eligible == { d.instance_id :
                       d \in { e \in Range(data) : InOrder(e.language) } }
     IN  /\ \A id \in eligible : Occurrences(FileIds, id) = 1
         /\ \A k \in 1..Len(FileIds) : FileIds[k] \in eligible
         /\ Len(FileIds) = Cardinality(eligible)

C1_Witness ==
  /\ RRWritten
  /\ \E d \in Range(data) : d.language = Php
  /\ Len(FileIds) > L
  /\ Len(data) > Len(FileIds)

\* C2: every window of up to L consecutive lines of the round-robin output,
\* and so every aligned block rr[i*L : i*L+L], holds at most one instance
\* per language, whatever the group lengths.
C2_WindowAtMostOnePerLanguage ==
  RRWritten
  => /\ \A a, b \in 1..Len(FileIds) :
          (a < b /\ b - a < L)
          => LanguageOf(FileIds[a]) # LanguageOf(FileIds[b])
     /\ \A a, b \in 1..Len(FileIds) :
          (a < b /\ (a - 1) \div L = (b - 1) \div L)
          => LanguageOf(FileIds[a]) # LanguageOf(FileIds[b])

\* C3: within the first L * minLen lines of the round-robin output, minLen
\* the length of the shortest group of a fixed language, line k is of the
\* language LANG_ORDER[k mod L], and every window of L consecutive lines
\* holds exactly one instance of each fixed language.
C3_FullRounds ==
  RRWritten
  => /\ Len(FileIds) >= L * MinGroup
     /\ \A k \in 1..(L * MinGroup) :
          LanguageOf(FileIds[k]) = LANG_ORDER[((k - 1) % L) + 1]
     /\ \A a \in 1..(L * MinGroup - L + 1) : \A m \in 1..L :
          Cardinality({ k \in a..(a + L - 1) :
                        LanguageOf(FileIds[k]) = LANG_ORDER[m] }) = 1

C3_Witness ==
  /\ RRWritten
  /\ MinGroup >= 2
  /\ Len(FileIds) > L * MinGroup

\* C4: the lines of one language in the round-robin output have
\* non-decreasing difficulty rank (easy 0, medium 1, hard 2, any other 99),
\* and ascending instance_ids where the rank is equal.
C4_SortedWithinLanguage ==
  RRWritten
  => \A a, b \in 1..Len(FileIds) :
       (a < b /\ LanguageOf(FileIds[a]) = LanguageOf(FileIds[b]))
       => LET ra == ClaimRank(RecordOf(FileIds[a]).difficulty)
              rb == ClaimRank(RecordOf(FileIds[b]).difficulty)
          IN  /\ ra <= rb
              /\ ra = rb => StrLess(FileIds[a], FileIds[b])

C4_Witness ==
  /\ RRWritten
  /\ \E j, k \in 1..Len(data) :
       /\ j < k
       /\ data[j].language = data[k].language
       /\ InOrder(data[j].language)
       /\ ClaimRank(data[j].difficulty) = 99
       /\ ClaimRank(data[k].difficulty) = 0
       /\ StrLess(data[j].instance_id, data[k].instance_id)
  /\ Len(FileIds) > L

\* C5: per_language_counts has the fixed languages as its keys, each with
\* the number of input records of that language (0 when there is none), so
\* its sum is the number of records of a fixed language; the sum of
\* per_difficulty_counts is total_instances, the number of all records.
C5_AggregateCounts ==
  SummaryWritten
  => /\ Len(Doc.per_language_counts) = L
     /\ \A m \in 1..L :
          /\ Doc.per_language_counts[m].key = LANG_ORDER[m]
          /\ Doc.per_language_counts[m].value =
               GroupSize(LANG_ORDER[m])
     /\ SumValues(Doc.per_language_counts) =
          Cardinality({ k \in 1..Len(data) : InOrder(data[k].language) })
     /\ SumValues(Doc.per_difficulty_counts) = Doc.total_instances
     /\ Doc.total_instances = Len(data)

C5_Witness ==
  /\ SummaryWritten
  /\ \E d \in Range(data) : d.language = Php
  /\ \E d \in Range(data) : InOrder(d.language) /\ d.difficulty = "expert"
  /\ \E m \in 1..L : Doc.per_language_counts[m].value = 0

\* C6: unique_repos holds exactly one entry per distinct (org, repo) pair
\* of the input, for all string values of org and repo.
C6_OneEntryPerPair ==
  SummaryWritten
  => LET pairs == { <<d.org, d.repo>> : d \in Range(data) }
         ur == Doc.unique_repos
     IN  /\ \A p \in pairs :
              Cardinality({ n \in 1..Len(ur) : <<ur[n].org, ur[n].repo>> = p }) = 1
         /\ \A n \in 1..Len(ur) : <<ur[n].org, ur[n].repo>> \in pairs

\* C7: every unique_repos entry carries the language of the first input
\* record with the entry's (org, repo) pair, and unique_repos is sorted
\* ascending by (language, org, repo).
C7_FirstSeenLanguageSorted ==
  SummaryWritten
  => LET ur == Doc.unique_repos
         SamePair(d, e) == d.org = e.org /\ d.repo = e.repo
         Before(x, y) ==
           \/ StrLess(x.language, y.language)
           \/ x.language = y.language /\ StrLess(x.org, y.org)
           \/ x.language = y.language /\ x.org = y.org /\ StrLess(x.repo, y.repo)
     IN  /\ \A n \in 1..Len(ur) :
              \E k \in 1..Len(data) :
                 /\ SamePair(data[k], ur[n])
                 /\ \A j \in 1..(k - 1) : ~SamePair(data[j], ur[n])
                 /\ ur[n].language = data[k].language
         /\ \A a, b \in 1..Len(ur) : a < b => ~Before(ur[b], ur[a])

C7_Witness ==
  /\ SummaryWritten
  /\ Len(Doc.unique_repos) >= 2
  /\ \E j, k \in 1..Len(data) :
       /\ j < k
       /\ data[j].org = data[k].org
       /\ data[j].repo = data[k].repo
       /\ data[j].language # data[k].language

\* C8: a second run on the same input that completes leaves both output
\* files exactly as the first completed run left them, whatever the files
\* held before and whatever order the process iterates its sets in.
C8_Deterministic ==
  (status = "done" /\ prev_outputs # <<>>)
  => /\ rr_file = prev_outputs[1].rr
     /\ summary_file = prev_outputs[1].summary

C8_Witness ==
  /\ status = "done"
  /\ prev_outputs # <<>>
  /\ Len(FileIds) > L
  /\ Len(Doc.unique_repos) >= 2

\* C9: a failure ends the run where it happens.  A record without language,
\* difficulty or instance_id stops the run in grouping or sorting with no
\* output file opened; a failure while the summary is built leaves the
\* round-robin file complete and the summary file unopened; the summary
\* file is opened only after the round-robin file is complete; and a line
\* is printed only once both files are complete.
C9_FailureAborts ==
  LET RRComplete ==
        rr_file = [exists |-> TRUE, content |-> RoundRobinText(rr_lines)]
      SummaryComplete ==
        summary # <<>> /\ summary_file = [exists |-> TRUE, content |-> summary]
      Missing(f) == \E d \in Range(data) : ~Has(d, f)
  IN  /\ Missing("language") => (pc = "group" /\ opened = {})
      /\ (Missing("difficulty") \/ Missing("instance_id"))
           => (pc \in {"group", "sort"} /\ opened = {})
      /\ (Missing("language") \/ Missing("difficulty") \/ Missing("instance_id"))
           => (~rr_file.exists /\ ~summary_file.exists /\ stdout = <<>>)
      /\ (status = "failed" /\ pc = "summary")
           => (RRComplete /\ opened = {ROUND_ROBIN_PATH})
      /\ (Missing("org") \/ Missing("repo")) => SUMMARY_PATH \notin opened
      /\ SUMMARY_PATH \in opened => (ROUND_ROBIN_PATH \in opened /\ RRComplete)
      /\ stdout # <<>>
           => (opened = {ROUND_ROBIN_PATH, SUMMARY_PATH}
               /\ RRComplete /\ SummaryComplete)
      /\ status = "failed"
           => /\ stdout = <<>>
              /\ pc \in {"load", "group", "sort"} => (opened = {} /\ rr_lines = <<>>)
              /\ pc \in {"load", "group", "sort", "write_rr", "summary"}
                   => (summary = <<>> /\ SUMMARY_PATH \notin opened)

C9_Witness ==
  /\ status = "failed"
  /\ pc = "summary"
  /\ \E d \in Range(data) : ~Has(d, "org")
  /\ Len(FileIds) >= 2

\* C10 as claimed: a completed run has printed exactly two lines, one per
\* output file, each naming its file's path together with an item count,
\* and the round-robin count is the number of instance_id lines written and
\* the number in the "# Total instances" header.
C10_BothLinesCarryCount ==
  status = "done"
  => /\ Len(stdout) = 2
     /\ stdout[1].path = ROUND_ROBIN_PATH
     /\ stdout[2].path = SUMMARY_PATH
     /\ \A n \in 1..Len(stdout) : Len(stdout[n].args) = 1
     /\ ParseInt(stdout[1].args[1]) = Len(FileIds)
     /\ ParseInt(rr_file.content[5].args[1]) = Len(FileIds)

\* C10 as amended: a completed run has printed exactly two lines, one per
\* output file, each naming its file's path; the round-robin line carries
\* an item count, equal to the number of instance_id lines written and to
\* the number in the "# Total instances" header, and the summary line
\* carries no count.
C10_Confirmation ==
  status = "done"
  => /\ Len(stdout) = 2
     /\ stdout[1].path = ROUND_ROBIN_PATH
     /\ stdout[2].path = SUMMARY_PATH
     /\ Len(stdout[1].args) = 1
     /\ stdout[2].args = <<>>
     /\ ParseInt(stdout[1].args[1]) = Len(FileIds)
     /\ rr_file.content[5].tmpl = "# Total instances: {}"
     /\ ParseInt(rr_file.content[5].args[1]) = Len(FileIds)

C10_Witness ==
  /\ status = "done"
  /\ Len(FileIds) >= 10
  /\ Len(data) > Len(FileIds)

====
